---- MODULE Spec2Model ----
(***************************************************************************)
(* Storybook generator (src/python/generate_storybook.py) as a state       *)
(* machine: one run of create_storybook, the two request helpers           *)
(* generate_story and generate_image, the output directory and its files.  *)
(* A Python str is a sequence of one-character strings; a bytes object is  *)
(* a sequence of numbers 0..255.                                           *)
(***************************************************************************)
EXTENDS Integers, Sequences, FiniteSets, TLC

(***************************************************************************)
(* Bounds of the model.                                                    *)
(***************************************************************************)
\* longest story (in sentences) the story endpoint returns in Spec
MaxSentences == 7
\* longest story the endpoint returns in SpecLive
LiveSentences == 4
\* longest story the endpoint returns in SpecRerun
RerunSentences == 1
\* number of runs against the same output directory in SpecRerun
MaxRuns == 2
\* longest sentence (in characters) drawn in SpecWords
MaxLen == 3
\* longest array drawn in SpecParse
MaxArray == 2

(***************************************************************************)
(* Python str methods used by the program.                                 *)
(***************************************************************************)
\* the characters str.strip() and str.split() treat as whitespace
Whitespace == {" ", "\n", "\t", "\r"}

\* the backtick character (a string token: the lexer admits no backtick literal)
Backtick == "BACKTICK"

\* the fence marker: three backticks
Fence == <<Backtick, Backtick, Backtick>>

\* s[a:b] with 1-based inclusive positions, empty when a > b
Slice(s, a, b) == IF a > b THEN <<>> ELSE SubSeq(s, a, b)

\* str.startswith
StartsWith(s, p) == Len(s) >= Len(p) /\ SubSeq(s, 1, Len(p)) = p

\* positions at which sub occurs in s
Occurrences(s, sub) ==
    {k \in 1..(Len(s) - Len(sub) + 1) : SubSeq(s, k, k + Len(sub) - 1) = sub}

Min(S) == CHOOSE x \in S : \A y \in S : x <= y
Max(S) == CHOOSE x \in S : \A y \in S : x >= y

\* str.strip(): leading and trailing whitespace removed
Strip(s) ==
    LET keep == {k \in 1..Len(s) : s[k] \notin Whitespace}
    IN  IF keep = {} THEN <<>> ELSE SubSeq(s, Min(keep), Max(keep))

\* str.split(sep, 1): the list of one or two pieces
Split1(s, sep) ==
    LET occ == Occurrences(s, sep)
    IN  IF occ = {} THEN <<s>>
        ELSE <<Slice(s, 1, Min(occ) - 1), Slice(s, Min(occ) + Len(sep), Len(s))>>

\* str.rsplit(sep, 1): the list of one or two pieces
RSplit1(s, sep) ==
    LET occ == Occurrences(s, sep)
    IN  IF occ = {} THEN <<s>>
        ELSE <<Slice(s, 1, Max(occ) - 1), Slice(s, Max(occ) + Len(sep), Len(s))>>

\* str.replace(c, ""): every occurrence of the character c removed
Replace(s, c) == SelectSeq(s, LAMBDA x : x # c)

\* str.split(): split on runs of whitespace, no empty pieces
RECURSIVE SplitWs(_)
SplitWs(s) ==
    LET start == {k \in 1..Len(s) : s[k] \notin Whitespace}
    IN  IF start = {} THEN <<>>
        ELSE LET a    == Min(start)
                 stop == {k \in a..Len(s) : s[k] \in Whitespace}
                 b    == IF stop = {} THEN Len(s) + 1 ELSE Min(stop)
             IN  <<SubSeq(s, a, b - 1)>> \o SplitWs(Slice(s, b, Len(s)))

(***************************************************************************)
(* json.loads, for the JSON texts over the model's alphabet: arrays,       *)
(* strings without escapes, unsigned integers.  A value is a record        *)
(* [t, v]: t = "str" with v the characters, t = "num" with v the digits,   *)
(* t = "arr" with v the sequence of element values.                        *)
(***************************************************************************)
JsonWs == {" ", "\n", "\t", "\r"}
Digits == {"0", "1", "2", "3", "4", "5", "6", "7", "8", "9"}
\* characters json.loads (strict) rejects inside a string literal
ControlChars == {"\n", "\t", "\r"}
Quote == "\""

JsonFail == [ok |-> FALSE]

\* first position >= i that holds no JSON whitespace (Len(s) + 1 when none)
SkipWs(s, i) ==
    LET rest == {k \in i..Len(s) : s[k] \notin JsonWs}
    IN  IF rest = {} THEN Len(s) + 1 ELSE Min(rest)

\* a string literal whose opening quote is at position i
ParseString(s, i) ==
    LET close == {k \in (i + 1)..Len(s) : s[k] = Quote}
    IN  IF close = {} THEN JsonFail
        ELSE LET c == Min(close)
             IN  IF \E k \in (i + 1)..(c - 1) : s[k] \in ControlChars
                 THEN JsonFail
                 ELSE [ok |-> TRUE, val |-> [t |-> "str", v |-> Slice(s, i + 1, c - 1)],
                       next |-> c + 1]

\* an unsigned integer starting at position i: "0", or a run of digits
ParseNumber(s, i) ==
    LET stop == {k \in i..Len(s) : s[k] \notin Digits}
        e    == IF s[i] = "0" THEN i + 1
                ELSE IF stop = {} THEN Len(s) + 1 ELSE Min(stop)
    IN  [ok |-> TRUE, val |-> [t |-> "num", v |-> SubSeq(s, i, e - 1)], next |-> e]

RECURSIVE ParseValue(_, _), ParseElems(_, _, _)
\* the value starting at position i (whitespace already skipped)
ParseValue(s, i) ==
    IF i > Len(s) THEN JsonFail
    ELSE IF s[i] = Quote THEN ParseString(s, i)
    ELSE IF s[i] \in Digits THEN ParseNumber(s, i)
    ELSE IF s[i] = "["
         THEN LET j == SkipWs(s, i + 1)
              IN  IF j <= Len(s) /\ s[j] = "]"
                  THEN [ok |-> TRUE, val |-> [t |-> "arr", v |-> <<>>], next |-> j + 1]
                  ELSE ParseElems(s, j, <<>>)
    ELSE JsonFail

\* the elements of an array from position j on, acc the elements read so far
ParseElems(s, j, acc) ==
    LET r == ParseValue(s, j)
    IN  IF ~r.ok THEN JsonFail
        ELSE LET k == SkipWs(s, r.next)
             IN  IF k > Len(s) THEN JsonFail
                 ELSE IF s[k] = "," THEN ParseElems(s, SkipWs(s, k + 1), Append(acc, r.val))
                 ELSE IF s[k] = "]"
                      THEN [ok |-> TRUE, val |-> [t |-> "arr", v |-> Append(acc, r.val)],
                            next |-> k + 1]
                 ELSE JsonFail

\* json.loads(s): the value, or failure (JSONDecodeError), extra data included
JsonLoads(s) ==
    LET r == ParseValue(s, SkipWs(s, 1))
    IN  IF r.ok /\ SkipWs(s, r.next) > Len(s) THEN [ok |-> TRUE, val |-> r.val]
        ELSE JsonFail

(***************************************************************************)
(* generate_story, from the response text on (lines 49-63): the outcome    *)
(* is an exception, or the story as the sequence that len() and            *)
(* enumerate() see.                                                        *)
(***************************************************************************)
Raised == [raised |-> TRUE, story |-> <<>>]

\* an unwrap that cuts at the first fence after the first line, not the last
UnwrapAtFirstFence(text) ==
    LET t == Strip(text)
    IN  IF StartsWith(t, Fence)
        THEN LET parts == Split1(t, <<"\n">>)
             IN  IF Len(parts) < 2 THEN [raised |-> TRUE, text |-> <<>>]
                 ELSE [raised |-> FALSE, text |-> Split1(parts[2], Fence)[1]]
        ELSE [raised |-> FALSE, text |-> t]

\* lines 50-54: strip, then drop the first line and the trailing fence
Unwrap(text) ==
    LET t == Strip(text)
    IN  IF StartsWith(t, Fence)
        THEN LET parts == Split1(t, <<"\n">>)
             IN  IF Len(parts) < 2 THEN [raised |-> TRUE, text |-> <<>>]
                 ELSE [raised |-> FALSE, text |-> RSplit1(parts[2], Fence)[1]]
        ELSE [raised |-> FALSE, text |-> t]

\* lines 56-63: json.loads, then len(story) and sentence.split() of the log
\* lines, which raise for a value that is no sequence of strings
Sentences(val) ==
    IF val.t = "num" THEN Raised
    ELSE IF val.t = "str"
         THEN [raised |-> FALSE, story |-> [k \in 1..Len(val.v) |-> <<val.v[k]>>]]
    ELSE IF \E k \in 1..Len(val.v) : val.v[k].t # "str" THEN Raised
    ELSE [raised |-> FALSE, story |-> [k \in 1..Len(val.v) |-> val.v[k].v]]

ParseStory(text) ==
    LET u == Unwrap(text)
    IN  IF u.raised THEN Raised
        ELSE LET r == JsonLoads(u.text)
             IN  IF ~r.ok THEN Raised ELSE Sentences(r.val)

\* words that keep the question marks
WordsKeepQuestion(sentence) ==
    SplitWs(Replace(Replace(Replace(sentence, "."), ","), "!"))

\* line 135: the words of a sentence
Words(sentence) ==
    SplitWs(Replace(Replace(Replace(Replace(sentence, "."), ","), "!"), "?"))


(***************************************************************************)
(* base64.b64decode(s) with validate = False, as binascii.a2b_base64 does  *)
(* it: characters outside the alphabet are skipped, a pad that completes   *)
(* a quad ends the data, an incomplete quad at the end is an error.        *)
(***************************************************************************)
B64Alphabet ==
    <<"A","B","C","D","E","F","G","H","I","J","K","L","M","N","O","P",
      "Q","R","S","T","U","V","W","X","Y","Z","a","b","c","d","e","f",
      "g","h","i","j","k","l","m","n","o","p","q","r","s","t","u","v",
      "w","x","y","z","0","1","2","3","4","5","6","7","8","9","+","/">>

B64Value(c) == (CHOOSE k \in 1..64 : B64Alphabet[k] = c) - 1
IsB64(c) == \E k \in 1..64 : B64Alphabet[k] = c

RECURSIVE B64Step(_, _, _, _, _, _)
\* k: next position, quad: position in the quad, left: pending bits,
\* pads: pads seen since the last data character, out: bytes so far
B64Step(s, k, quad, left, pads, out) ==
    IF k > Len(s)
    THEN IF quad = 0 THEN [ok |-> TRUE, bytes |-> out] ELSE [ok |-> FALSE, bytes |-> <<>>]
    ELSE IF s[k] = "="
         THEN IF quad >= 2 /\ quad + pads + 1 >= 4
              THEN [ok |-> TRUE, bytes |-> out]
              ELSE B64Step(s, k + 1, quad, left, IF quad >= 2 THEN pads + 1 ELSE pads, out)
    ELSE IF ~IsB64(s[k]) THEN B64Step(s, k + 1, quad, left, pads, out)
    ELSE LET v == B64Value(s[k])
         IN  IF quad = 0 THEN B64Step(s, k + 1, 1, v, 0, out)
             ELSE IF quad = 1
                  THEN B64Step(s, k + 1, 2, v % 16, 0, Append(out, (left * 4 + v \div 16) % 256))
             ELSE IF quad = 2
                  THEN B64Step(s, k + 1, 3, v % 4, 0, Append(out, (left * 16 + v \div 4) % 256))
             ELSE B64Step(s, k + 1, 0, 0, 0, Append(out, (left * 64 + v) % 256))

B64Decode(s) == B64Step(s, 1, 0, 0, 0, <<>>)

(***************************************************************************)
(* generate_image, from the response on (lines 81-94).  A response either  *)
(* raises (the request failed) or carries parts; a part is a text part     *)
(* (inline_data is None) or an inline part whose data is bytes, a str or   *)
(* None.                                                                   *)
(***************************************************************************)
None == "<None>"

TextPart == [inline |-> FALSE, kind |-> "text", data |-> <<>>]
InlineBytes(b) == [inline |-> TRUE, kind |-> "bytes", data |-> b]
InlineStr(t) == [inline |-> TRUE, kind |-> "str", data |-> t]
InlineNone == [inline |-> TRUE, kind |-> "none", data |-> <<>>]

\* the path of the image in place of its name
ScenePath(index) == "storybook/scene_" \o ToString(index + 1) \o ".png"

\* line 84: the file name of the image of page index + 1
SceneName(index) == "scene_" \o ToString(index + 1) \o ".png"

\* a file opened without truncation, as with "ab"
OpenAppend(fs, name) == [n \in DOMAIN fs \cup {name} |-> IF n \in DOMAIN fs THEN fs[n] ELSE <<>>]

\* line 89: open(path, "wb") creates the file or truncates it
OpenWb(fs, name) == [n \in DOMAIN fs \cup {name} |-> IF n = name THEN <<>> ELSE fs[n]]

\* line 90: f.write(data) at the end of the open file
FileWrite(fs, name, data) == [fs EXCEPT ![name] = fs[name] \o data]

\* lines 81-82: the first part that carries inline data (0 when none does)
FirstInline(parts) ==
    LET have == {k \in 1..Len(parts) : parts[k].inline}
    IN  IF have = {} THEN 0 ELSE Min(have)

\* lines 85-88: the bytes to write; decoding a str may raise
ImageData(part) ==
    IF part.kind = "str" THEN B64Decode(part.data) ELSE [ok |-> TRUE, bytes |-> part.data]

\* lines 81-94 on the files fs: [raised, name, fs, data]
GenerateImage(response, index, fs) ==
    IF response.raises \/ FirstInline(response.parts) = 0
    THEN [raised |-> TRUE, name |-> None, fs |-> fs, data |-> <<>>]
    ELSE LET part == response.parts[FirstInline(response.parts)]
             d    == ImageData(part)
         IN  IF ~d.ok THEN [raised |-> TRUE, name |-> None, fs |-> fs, data |-> <<>>]
             ELSE IF part.kind = "none"
                  THEN [raised |-> TRUE, name |-> None,
                        fs |-> OpenWb(fs, SceneName(index)), data |-> <<>>]
             ELSE [raised |-> FALSE, name |-> SceneName(index),
                   fs |-> FileWrite(OpenWb(fs, SceneName(index)), SceneName(index), d.bytes),
                   data |-> d.bytes]

(***************************************************************************)
(* What the two endpoints may answer.                                      *)
(***************************************************************************)
\* json.dumps of an array of strings: the text of the array
RECURSIVE DumpElems(_)
DumpElems(a) ==
    IF Len(a) = 0 THEN <<>>
    ELSE <<Quote>> \o a[1] \o <<Quote>>
         \o (IF Len(a) = 1 THEN <<>> ELSE <<",", " ">> \o DumpElems(Tail(a)))

Dump(a) == <<"[">> \o DumpElems(a) \o <<"]">>

\* the array in a fenced block: fence and tag, the array, the closing fence
Fenced(text, tag, lead, trail, eol, sep) ==
    lead \o Fence \o tag \o eol \o text \o sep \o Fence \o trail

SentencePool ==
    << <<"a", " ", "b", ".">>, <<"c", "!">>, <<"a", ",", " ", "d", "?">> >>

\* the story of n sentences the text endpoint is taken to tell
StoryOf(n) == [k \in 1..n |-> SentencePool[((k - 1) % Len(SentencePool)) + 1]]

TextOutcome(text) == [raises |-> FALSE, text |-> text]
RequestRaises == [raises |-> TRUE, text |-> <<>>]

\* answers that are no JSON array of strings
OddTexts ==
    { <<>>,                                               \* empty answer
      <<"[", Quote, "a", Quote>>,                         \* array not closed
      <<"S", ":", " ">> \o Dump(StoryOf(1)),              \* prose before the array
      Fence \o Dump(StoryOf(1)) \o Fence,                 \* fence without a line break
      <<"[", "1", ",", " ", "2", "]">>,                   \* array of numbers
      <<"7">>,                                            \* a number
      <<Quote, "h", "i", Quote>> }                        \* a string

StoryOutcomes(maxLen) ==
    {RequestRaises}
    \cup {TextOutcome(Dump(StoryOf(n))) : n \in 0..maxLen}
    \cup {TextOutcome(Fenced(Dump(StoryOf(n)), <<"j", "s", "o", "n">>, <<>>, <<"\n">>,
                              <<"\n">>, <<"\n">>)) : n \in {0, 2}}
    \cup {TextOutcome(t) : t \in OddTexts}

ImageRaises == [raises |-> TRUE, parts |-> <<>>]
ImageParts(parts) == [raises |-> FALSE, parts |-> parts]

ImageResponses ==
    { ImageRaises,
      ImageParts(<<>>),
      ImageParts(<<TextPart>>),
      ImageParts(<<TextPart, InlineBytes(<<137, 80>>), InlineBytes(<<2>>)>>),
      ImageParts(<<InlineBytes(<<>>)>>),
      ImageParts(<<InlineStr(<<"i", "V", "A", "=">>)>>),
      ImageParts(<<InlineStr(<<"A">>)>>),
      ImageParts(<<InlineStr(<<>>)>>),
      ImageParts(<<InlineStr(<<"!", "!">>)>>) }

\* with a second payload, so that two runs can differ in what they write, and
\* with a part whose data is None, so that a file is opened and nothing written
AllImageResponses ==
    ImageResponses \cup {ImageParts(<<InlineBytes(<<1>>)>>), ImageParts(<<InlineNone>>)}

(***************************************************************************)
(* The state.                                                              *)
(***************************************************************************)
VARIABLES
    GEMINI_API_KEY,   \* line 15: the credential: None, "" or a key
    pc,               \* where create_storybook is
    run,              \* number of the run against the output directory
    dirExists,        \* OUTPUT_DIR exists
    files,            \* the scene files of OUTPUT_DIR: name -> bytes
    manifestFile,     \* storybook.json: <<>> when absent, else <<its value>>
    story_response,   \* the answer of the text endpoint
    story,            \* line 111
    storybook_data,   \* line 118
    i,                \* line 124: the loop index
    image_filename,   \* line 129 / 132
    report,           \* lines 161-171: what the verification finds per page
    console,          \* the kinds of message printed
    log,              \* the calls made, in order
    array,            \* SpecParse: the array the answer wraps
    before            \* the scene files and the manifest as the run found them

vars == <<GEMINI_API_KEY, pc, run, dirExists, files, manifestFile, story_response,
          story, storybook_data, i, image_filename, report, console, log, array,
          before>>

fsVars == <<dirExists, files, manifestFile>>

KeyValues == {None, "", "key"}

\* a test for None alone, which lets the empty credential through
MissingIsNone(key) == key = None

\* line 99: not GEMINI_API_KEY
Missing(key) == key = None \/ key = ""

NoFiles == [n \in {} |-> <<>>]
NoData == [title |-> "", description |-> "", pages |-> <<>>]

Call(op, index, ok, data) == [op |-> op, index |-> index, ok |-> ok, data |-> data]

\* a process about to call create_storybook
Fresh(key) ==
    /\ GEMINI_API_KEY = key
    /\ pc = "start"
    /\ story_response = RequestRaises
    /\ story = <<>>
    /\ storybook_data = NoData
    /\ i = 0
    /\ image_filename = None
    /\ report = <<>>
    /\ console = <<>>
    /\ log = <<>>

Init ==
    /\ \E key \in KeyValues : Fresh(key)
    /\ run = 1
    /\ dirExists \in BOOLEAN
    /\ files = NoFiles
    /\ manifestFile = <<>>
    /\ array = <<>>
    /\ before = [files |-> NoFiles, manifest |-> <<>>]

(***************************************************************************)
(* create_storybook, step by step.                                         *)
(***************************************************************************)
\* lines 99-102: no credential: report and return
MissingCredential ==
    /\ pc = "start"
    /\ Missing(GEMINI_API_KEY)
    /\ console' = Append(console, "ERROR")
    /\ pc' = "returned"
    /\ UNCHANGED <<GEMINI_API_KEY, run, dirExists, files, manifestFile, story_response,
                   story, storybook_data, i, image_filename, report, log, array, before>>

\* lines 105-108: the client, then OUTPUT_DIR.mkdir(parents, exist_ok)
Setup ==
    /\ pc = "start"
    /\ ~Missing(GEMINI_API_KEY)
    /\ log' = Append(log, Call("client", 0, TRUE, <<>>))
    /\ dirExists' = TRUE
    /\ pc' = "request"
    /\ UNCHANGED <<GEMINI_API_KEY, run, files, manifestFile, story_response, story,
                   storybook_data, i, image_filename, report, console, array, before>>

\* lines 44-47: the text request; an exception of the request propagates
request_story(maxLen) ==
    /\ pc = "request"
    /\ \E r \in StoryOutcomes(maxLen) :
          /\ story_response' = r
          /\ log' = Append(log, Call("text", 0, ~r.raises, <<>>))
          /\ pc' = IF r.raises THEN "crashed" ELSE "parse"
    /\ UNCHANGED <<GEMINI_API_KEY, run, dirExists, files, manifestFile, story,
                   storybook_data, i, image_filename, report, console, array, before>>

\* lines 49-63 and 113-122: parse the answer; the length check; the empty book
LengthWarning(n) == n < 5 \/ n > 6

\* a parse failure taken for an empty story
ParsedRecovering ==
    IF ParseStory(story_response.text).raised THEN [raised |-> FALSE, story |-> <<>>]
    ELSE ParseStory(story_response.text)

\* what generate_story makes of the answer received
Parsed == ParseStory(story_response.text)

\* line 118
EmptyBook ==
    [title |-> "Newton and the Apple",
     description |-> "Learn how Isaac Newton discovered gravity!",
     pages |-> <<>>]

parse_story ==
    /\ pc = "parse"
    /\ pc' = IF Parsed.raised THEN "crashed" ELSE "loop"
    /\ story' = IF Parsed.raised THEN story ELSE Parsed.story
    /\ console' = IF ~Parsed.raised /\ LengthWarning(Len(Parsed.story))
                  THEN Append(console, "WARNING") ELSE console
    /\ storybook_data' = IF Parsed.raised THEN storybook_data ELSE EmptyBook
    /\ i' = 0
    /\ UNCHANGED <<GEMINI_API_KEY, run, dirExists, files, manifestFile, story_response,
                   image_filename, report, log, array, before>>

\* a loop over the first six sentences only
MoreSentencesUpToSix(index, sentences) == index < Len(sentences) /\ index < 6

\* line 124: the loop has a next sentence
MoreSentences(index, sentences) == index < Len(sentences)

\* lines 128-132: the image of sentence i; any exception leaves None
generate_image(responses) ==
    /\ pc = "loop"
    /\ MoreSentences(i, story)
    /\ \E response \in responses :
          LET r == GenerateImage(response, i, files)
          IN  /\ files' = r.fs
              /\ image_filename' = r.name
              /\ log' = Append(log, Call("image", i, ~r.raised, r.data))
              /\ console' = IF r.raised THEN Append(console, "Warning") ELSE console
    /\ pc' = "page"
    /\ UNCHANGED <<GEMINI_API_KEY, run, dirExists, manifestFile, story_response, story,
                   storybook_data, i, report, array, before>>

\* lines 137-142
PageData(index, sentence, image) ==
    [page_number |-> index + 1, sentence |-> sentence, words |-> Words(sentence),
     image |-> image]

\* a loop that leaves out the pages whose image failed
NextPagesSkipFailed(pages, index, sentence, image) ==
    IF image = None THEN pages ELSE Append(pages, PageData(index, sentence, image))

\* line 143: the page is appended, with or without an image
NextPages(pages, index, sentence, image) ==
    Append(pages, PageData(index, sentence, image))

\* a loop that asks again for an image that failed
NextIndexRetry(index, image) == IF image = None THEN index ELSE index + 1

\* line 124: enumerate goes to the next sentence
NextIndex(index, image) == index + 1

\* lines 135-146: the words, the page, the pause
append_page ==
    /\ pc = "page"
    /\ storybook_data' =
           [storybook_data EXCEPT
               !.pages = NextPages(@, i, story[i + 1], image_filename)]
    /\ log' = log \o <<Call("page", i, TRUE, <<>>), Call("sleep", i, TRUE, <<>>)>>
    /\ i' = NextIndex(i, image_filename)
    /\ pc' = "loop"
    /\ UNCHANGED <<GEMINI_API_KEY, run, dirExists, files, manifestFile, story_response,
                   story, image_filename, report, console, array, before>>

\* lines 149-152: json.dump to storybook.json, opened with "w"
save_manifest ==
    /\ pc = "loop"
    /\ ~MoreSentences(i, story)
    /\ manifestFile' = <<storybook_data>>
    /\ log' = Append(log, Call("manifest", 0, TRUE, <<>>))
    /\ pc' = "verify"
    /\ UNCHANGED <<GEMINI_API_KEY, run, dirExists, files, story_response, story,
                   storybook_data, i, image_filename, report, console, array, before>>

\* lines 166-171: per page: no image, the file is missing, or its size
Verification(pages, fs) ==
    [k \in 1..Len(pages) |->
        IF pages[k].image = None THEN [image |-> FALSE, exists |-> FALSE, size |-> 0]
        ELSE IF pages[k].image \in DOMAIN fs
             THEN [image |-> TRUE, exists |-> TRUE, size |-> Len(fs[pages[k].image])]
        ELSE [image |-> TRUE, exists |-> FALSE, size |-> 0]]

\* lines 154-177: the report, then return storybook_data
verify ==
    /\ pc = "verify"
    /\ report' = Verification(storybook_data.pages, files)
    /\ pc' = "done"
    /\ UNCHANGED <<GEMINI_API_KEY, run, dirExists, files, manifestFile, story_response,
                   story, storybook_data, i, image_filename, console, log, array, before>>

\* the script is run again, against the same output directory
Ended == pc \in {"returned", "crashed", "done"}

Rerun ==
    /\ Ended
    /\ run < MaxRuns
    /\ run' = run + 1
    /\ GEMINI_API_KEY' \in KeyValues
    /\ pc' = "start"
    /\ story_response' = RequestRaises
    /\ story' = <<>>
    /\ storybook_data' = NoData
    /\ i' = 0
    /\ image_filename' = None
    /\ report' = <<>>
    /\ console' = <<>>
    /\ log' = <<>>
    /\ before' = [files |-> files, manifest |-> manifestFile]
    /\ UNCHANGED <<dirExists, files, manifestFile, array>>

Next ==
    \/ MissingCredential
    \/ Setup
    \/ request_story(MaxSentences)
    \/ parse_story
    \/ generate_image(ImageResponses)
    \/ append_page
    \/ save_manifest
    \/ verify

Spec == Init /\ [][Next]_vars

\* the run, with stories of at most LiveSentences sentences
NextLive ==
    \/ MissingCredential
    \/ Setup
    \/ request_story(LiveSentences)
    \/ parse_story
    \/ generate_image(AllImageResponses)
    \/ append_page
    \/ save_manifest
    \/ verify

\* the loop and what follows it go on: each step is a call that returns or raises
LoopFairness ==
    /\ WF_vars(generate_image(AllImageResponses))
    /\ WF_vars(append_page)
    /\ WF_vars(save_manifest)
    /\ WF_vars(verify)

SpecLive == Init /\ [][NextLive]_vars /\ LoopFairness

NextRerun ==
    \/ MissingCredential
    \/ Setup
    \/ request_story(RerunSentences)
    \/ parse_story
    \/ generate_image(AllImageResponses)
    \/ append_page
    \/ save_manifest
    \/ verify
    \/ Rerun

SpecRerun == Init /\ [][NextRerun]_vars

(***************************************************************************)
(* generate_story on fenced and unfenced answers: the run from the moment  *)
(* the text endpoint has answered with the array `array`, as it is or in a *)
(* fenced block.                                                           *)
(***************************************************************************)
ParseStrings ==
    { <<>>, <<"a">>, <<"a", " ", "b", ".">>, Fence, <<Backtick, "a", "]">>, <<",", "[">> }

RECURSIVE SeqsUpTo(_, _)
\* the sequences over S of length at most n
SeqsUpTo(S, n) ==
    IF n = 0 THEN {<<>>}
    ELSE LET shorter == SeqsUpTo(S, n - 1)
         IN  shorter \cup {Append(q, x) : q \in shorter, x \in S}

Arrays == SeqsUpTo(ParseStrings, MaxArray)

Wrappings(text) ==
    {text}
    \cup {Fenced(text, tag, lead, trail, eol, sep) :
            tag \in {<<>>, <<"j", "s", "o", "n">>},
            lead \in {<<>>, <<" ", "\n">>},
            trail \in {<<>>, <<"\n">>, <<" ">>},
            eol \in {<<"\n">>, <<"\r", "\n">>},
            sep \in {<<>>, <<"\n">>}}

\* the run has its client and directory and the text request has returned
Requested(response) ==
    /\ GEMINI_API_KEY = "key"
    /\ pc = "parse"
    /\ run = 1
    /\ dirExists = TRUE
    /\ files = NoFiles
    /\ manifestFile = <<>>
    /\ story_response = response
    /\ story = <<>>
    /\ storybook_data = NoData
    /\ i = 0
    /\ image_filename = None
    /\ report = <<>>
    /\ console = <<>>
    /\ log = <<Call("client", 0, TRUE, <<>>), Call("text", 0, TRUE, <<>>)>>
    /\ before = [files |-> NoFiles, manifest |-> <<>>]

InitParse ==
    \E a \in Arrays :
        /\ array = a
        /\ \E text \in Wrappings(Dump(a)) : Requested(TextOutcome(text))

NextParse == parse_story

SpecParse == InitParse /\ [][NextParse]_vars

(***************************************************************************)
(* The words of a page: the run from the moment the text endpoint has      *)
(* answered with a story of one sentence.                                  *)
(***************************************************************************)
Punctuation == {".", ",", "!", "?"}
WordChars == {"a", "b", " "} \cup Punctuation

Example ==
    <<"N", "e", "w", "t", "o", "n", " ", "s", "a", "w", " ", "a", "n", " ",
      "a", "p", "p", "l", "e", " ", "f", "a", "l", "l", ".">>

WordSentences == SeqsUpTo(WordChars, MaxLen) \cup {Example}

InitWords ==
    /\ array = <<>>
    /\ \E sentence \in WordSentences : Requested(TextOutcome(Dump(<<sentence>>)))

NextWords ==
    \/ parse_story
    \/ generate_image(ImageResponses)
    \/ append_page

SpecWords == InitWords /\ [][NextWords]_vars

(***************************************************************************)
(* The properties.                                                         *)
(***************************************************************************)
Last(q) == q[Len(q)]
Calls(op) == {k \in 1..Len(log) : log[k].op = op}
Pages == storybook_data.pages
Finished == pc \in {"verify", "done"}

\* generate_image has just raised for page i
ImageRaised == pc = "page" /\ Last(log).op = "image" /\ ~Last(log).ok

\* C1: when generate_image raises for page i, the page is still appended, with
\* image = None, page_number i + 1, the sentence and its words, the loop goes on
\* with page i + 1, and the run reaches the manifest write: once the story is
\* parsed, no run is aborted.
C1_ImageFailureNeverAborts ==
    /\ [][ImageRaised =>
            /\ pc' = "loop"
            /\ i' = i + 1
            /\ Pages' = Append(Pages, [page_number |-> i + 1, sentence |-> story[i + 1],
                                       words |-> Words(story[i + 1]), image |-> None])]_vars
    /\ [](pc = "crashed" => Calls("image") = {})
    /\ (ImageRaised ~> (pc = "done" /\ manifestFile = <<storybook_data>>))

\* a completed run whose image requests have all failed
C1_Witness ==
    /\ pc = "done"
    /\ Len(story) >= 3
    /\ \A k \in Calls("image") : ~log[k].ok
    /\ \A k \in 1..Len(Pages) : Pages[k].image = None
    /\ Len(manifestFile[1].pages) = Len(story)

\* C2: in a completed run the manifest written has as many pages as
\* generate_story returned sentences, whatever that number; a number outside
\* {5, 6} prints a warning and changes nothing else.
C2_PagesEqualSentences ==
    Finished =>
        /\ manifestFile # <<>>
        /\ story = ParseStory(story_response.text).story
        /\ Len(manifestFile[1].pages) = Len(story)
        /\ Len(Pages) = Len(story)
        /\ ("WARNING" \in {console[k] : k \in 1..Len(console)})
               <=> (Len(story) \notin {5, 6})

\* a completed run of a story of seven sentences, with the warning
C2_Witness ==
    /\ pc = "done"
    /\ Len(story) = 7
    /\ Len(manifestFile[1].pages) = 7
    /\ \E k \in 1..Len(console) : console[k] = "WARNING"

\* C3: at the end of a completed run, the file of every page whose image is
\* not None exists in the output directory and is not empty.
C3_ImageFilesNotEmpty ==
    pc = "done" =>
        \A k \in 1..Len(manifestFile[1].pages) :
            LET image == manifestFile[1].pages[k].image
            IN  image # None => (image \in DOMAIN files /\ Len(files[image]) > 0)

\* C4: a story of six sentences whose six images all succeed gives a manifest
\* of six pages, page k with page_number k, the k-th sentence and the image
\* scene_<k>.png, a bare file name.
SixNames ==
    <<"scene_1.png", "scene_2.png", "scene_3.png", "scene_4.png", "scene_5.png",
      "scene_6.png">>

SixImagesSucceeded ==
    /\ pc = "done"
    /\ Len(story) = 6
    /\ Cardinality(Calls("image")) = 6
    /\ \A k \in Calls("image") : log[k].ok

C4_SixPages ==
    SixImagesSucceeded =>
        /\ manifestFile = <<storybook_data>>
        /\ Len(Pages) = 6
        /\ \A k \in 1..6 :
              /\ Pages[k].page_number = k
              /\ Pages[k].sentence = story[k]
              /\ Pages[k].image = SixNames[k]

C4_Witness == SixImagesSucceeded /\ Len(Pages) = 6 /\ Pages[6].image = "scene_6.png"

\* the credential is absent: unset or empty
Absent == GEMINI_API_KEY \in {None, ""}

\* C5: with the credential absent, create_storybook reports the error and
\* returns: no client, no request, and the output directory, the scene files
\* and storybook.json are left as they were.
C5_NoCredentialNoActivity ==
    /\ [][Absent => (UNCHANGED fsVars /\ log' = <<>>)]_vars
    /\ [][(pc = "start" /\ Absent) => (pc' = "returned" /\ console' = <<"ERROR">>)]_vars
    /\ [](Absent => (pc \in {"start", "returned"} /\ log = <<>>))

\* a run without credential that has returned, over a populated directory
C5_Witness ==
    /\ pc = "returned"
    /\ Absent
    /\ run = 2
    /\ DOMAIN files # {}
    /\ manifestFile # <<>>
    /\ files = before.files
    /\ manifestFile = before.manifest

\* the answer of the text endpoint is no JSON once unwrapped
StoryNotJson ==
    /\ ~story_response.raises
    /\ ~Unwrap(story_response.text).raised
    /\ ~JsonLoads(Unwrap(story_response.text).text).ok

\* C6: when the answer is no JSON after the unwrap, generate_story raises and
\* the run aborts: no image request, no page, no scene file written, and
\* storybook.json neither written nor modified; the output directory is the
\* only thing the run has made.
C6_ParseErrorAborts ==
    /\ [][(pc = "parse" /\ StoryNotJson) =>
            (pc' = "crashed" /\ UNCHANGED <<fsVars, log, storybook_data>>)]_vars
    /\ [][(pc \in {"start", "request", "parse", "crashed"}) =>
            (files' = files /\ manifestFile' = manifestFile)]_vars
    /\ [](pc = "crashed" =>
            /\ Calls("image") = {}
            /\ Calls("manifest") = {}
            /\ Pages = <<>>
            /\ files = before.files
            /\ manifestFile = before.manifest)

\* a run aborted by an answer that is no JSON, over a populated directory
C6_Witness ==
    /\ pc = "crashed"
    /\ StoryNotJson
    /\ run = 2
    /\ DOMAIN files # {}
    /\ manifestFile # <<>>

\* C7: a second run over the directory an earlier run has populated fails on
\* no existing file; at its end storybook.json holds its manifest and the file
\* of every image that succeeded in it holds the bytes it received, nothing else.
C7_RerunOverwrites ==
    /\ (run >= 2 /\ pc = "crashed") => Last(log).op = "text"
    /\ (run >= 2 /\ pc = "done") =>
          /\ manifestFile = <<storybook_data>>
          /\ \A k \in Calls("image") :
                log[k].ok =>
                    /\ Pages[log[k].index + 1].image \in DOMAIN files
                    /\ files[Pages[log[k].index + 1].image] = log[k].data

\* a second run that has replaced the manifest and a scene file of the first
C7_Witness ==
    /\ run = 2
    /\ pc = "done"
    /\ before.manifest # <<>>
    /\ before.manifest # manifestFile
    /\ \E k \in Calls("image") :
          /\ log[k].ok
          /\ Pages[log[k].index + 1].image \in DOMAIN before.files
          /\ before.files[Pages[log[k].index + 1].image] # <<>>
          /\ before.files[Pages[log[k].index + 1].image] # log[k].data

\* the calls of the log in order: one text request before any image request,
\* the image requests with indices 0, 1, 2, ... and none repeated, the page of
\* index n appended and the pause taken before the request of index n + 1
ImageCallsInOrder ==
    /\ Cardinality(Calls("text")) <= 1
    /\ \A k \in Calls("image") :
          /\ \E t \in Calls("text") : t < k
          /\ log[k].index = Cardinality({j \in Calls("image") : j < k})
          /\ log[k].index >= 1 =>
                \E p \in Calls("page"), z \in Calls("sleep") :
                    /\ p < z /\ z < k
                    /\ log[p].index = log[k].index - 1
                    /\ log[z].index = log[k].index - 1
                    /\ \E j \in Calls("image") : j < p /\ log[j].index = log[k].index - 1
    /\ pc \notin {"start", "request"} /\ ~Absent => Cardinality(Calls("text")) = 1

\* the manifest is written once, last, after the page of every sentence
ManifestOnceAtEnd ==
    /\ Cardinality(Calls("manifest")) = 1
    /\ Last(log).op = "manifest"
    /\ Cardinality(Calls("image")) = Len(story)
    /\ Cardinality(Calls("page")) = Len(story)
    /\ Cardinality(Calls("sleep")) = Len(story)

\* C10 as stated: in every run with the credential the calls are in order and
\* the manifest is written exactly once, after the last page.
C10_Original == (Ended /\ ~Absent) => (ImageCallsInOrder /\ ManifestOnceAtEnd)

\* C10: the calls are in order in every run; the manifest is written exactly
\* once, after the last page, in every run in which generate_story returns, and
\* not at all in a run in which it raises.
C10_CallOrder ==
    /\ ImageCallsInOrder
    /\ Cardinality(Calls("manifest")) <= 1
    /\ pc = "done" => ManifestOnceAtEnd
    /\ pc = "crashed" => (Calls("manifest") = {} /\ Calls("image") = {})
    /\ pc \in {"loop", "page"} => Calls("manifest") = {}

\* a completed run with a failed image request in the middle
C10_Witness ==
    /\ pc = "done"
    /\ Len(story) >= 3
    /\ ManifestOnceAtEnd
    /\ \E k \in Calls("image") : ~log[k].ok /\ log[k].index = 1

\* C8: an array of strings in a fenced block (three backticks, an optional
\* tag, the array, the closing fence, whitespace around) is parsed to the
\* sequence that its unwrapped text is parsed to: the array itself.
C8_FenceUnwrapped ==
    pc # "parse" =>
        /\ pc = "loop"
        /\ ~ParseStory(Dump(array)).raised
        /\ story = ParseStory(Dump(array)).story
        /\ story = array

\* a fenced answer parsed, its array holding a fence of its own
C8_Witness ==
    /\ pc = "loop"
    /\ StartsWith(Strip(story_response.text), Fence)
    /\ Len(story) = 2
    /\ story[1] = Fence
    /\ story = array

NoPunct(s) == SelectSeq(s, LAMBDA c : c \notin Punctuation)
NoPunctNoSpace(s) == SelectSeq(s, LAMBDA c : c \notin Punctuation \cup Whitespace)

RECURSIVE Flatten(_), JoinSpaces(_)
Flatten(ws) == IF ws = <<>> THEN <<>> ELSE ws[1] \o Flatten(Tail(ws))
JoinSpaces(ws) ==
    IF ws = <<>> THEN <<>>
    ELSE IF Len(ws) = 1 THEN ws[1] ELSE ws[1] \o <<" ">> \o JoinSpaces(Tail(ws))

\* the sentences that differ from s in their punctuation only
SamePunctuationApart ==
    [n \in {NoPunct(s) : s \in WordSentences} |->
        {t \in WordSentences : NoPunct(t) = n}]

\* C9: the words of a page are its sentence without '.', ',', '!', '?', split
\* on whitespace: no word is empty or holds one of the four or whitespace,
\* sentences that differ in the four only have the same words, and the words
\* of the words joined by spaces are the words.
C9_Words ==
    \A k \in 1..Len(Pages) :
        LET words == Pages[k].words
            sentence == Pages[k].sentence
        IN  /\ sentence = story[k]
            /\ \A w \in 1..Len(words) :
                  /\ words[w] # <<>>
                  /\ \A c \in 1..Len(words[w]) :
                        words[w][c] \notin Punctuation \cup Whitespace
            /\ Flatten(words) = NoPunctNoSpace(sentence)
            /\ Len(words) = Cardinality({c \in 1..Len(NoPunct(sentence)) :
                                /\ NoPunct(sentence)[c] \notin Whitespace
                                /\ c = 1 \/ NoPunct(sentence)[c - 1] \in Whitespace})
            /\ \A t \in SamePunctuationApart[NoPunct(sentence)] : Words(t) = words
            /\ Words(JoinSpaces(words)) = words
            /\ sentence = Example =>
                  words = << <<"N", "e", "w", "t", "o", "n">>, <<"s", "a", "w">>,
                             <<"a", "n">>, <<"a", "p", "p", "l", "e">>,
                             <<"f", "a", "l", "l">> >>

\* the page of the example sentence, with its five words
C9_Witness ==
    /\ Len(Pages) = 1
    /\ Pages[1].sentence = Example
    /\ Len(Pages[1].words) = 5

====
